---- MODULE Spec2Model ----
(***************************************************************************)
(* Model of src/index.js: the /db-save chain (authenticate,                *)
(* rateLimiterMiddleware, handler), the /time-based-api chain              *)
(* (timeRestrictionMiddleware, handler) and the token routes.              *)
(*                                                                         *)
(* The wall clock is kept in whole seconds since the start of the run and  *)
(* sampled on a grid of Tick seconds; Date.now() is that clock in ms.      *)
(***************************************************************************)
EXTENDS Integers, Sequences, FiniteSets, TLC

VARIABLES
    clock,      \* the wall clock, in whole seconds
    hitTracker, \* the object of line 48: own keys -> array of timestamps
    inflight,   \* the /db-save requests in flight: slot -> position and body
    last,       \* what the step taken last did (middleware, inputs, outcome)
    lastAdmit,  \* history: key -> time rateLimiterMiddleware last called next()
    env,        \* process.env: the two signing secrets
    today,      \* new Date() as timeRestrictionMiddleware reads it: day, hours
    rotated     \* history: the refresh token rotated first, and how often since

vars == <<clock, hitTracker, inflight, last, lastAdmit, env, today, rotated>>

(***************************************************************************)
(* Bounds of the model.                                                    *)
(***************************************************************************)
MaxTick == 4        \* the clock runs over 0 .. MaxTick * Tick
MaxInFlight == 2    \* /db-save requests that can be in flight together
MaxRotations == 2   \* rotations of one refresh token that are counted

Tick == 100         \* grid of the sampled clock, in seconds

Times == {n * Tick : n \in 0..MaxTick}
Slots == 1..MaxInFlight

(***************************************************************************)
(* JavaScript values that req.body.customer_name can hold, and the         *)
(* property lookup hitTracker[customer_name] on an object literal, whose   *)
(* prototype is Object.prototype.                                          *)
(***************************************************************************)
Undefined == [type |-> "undefined"]
Str(s) == [type |-> "string", value |-> s]
Arr(a) == [type |-> "array", value |-> a]
Fun(n) == [type |-> "function", length |-> n]
Obj == [type |-> "object"]

\* req.body.customer_name: absent, empty, ordinary names, and names that
\* Object.prototype defines.
CustomerNames ==
    {Undefined, Str(""), Str("A"), Str("B"),
     Str("toString"), Str("constructor"), Str("__proto__")}

\* What a plain object inherits: Object.prototype.toString (a function of 0
\* parameters), Object.prototype.constructor (Object, 1 parameter) and the
\* __proto__ accessor, which yields Object.prototype itself.
ObjectPrototype ==
    [name \in {"toString", "constructor", "__proto__"} |->
        CASE name = "toString" -> Fun(0)
          [] name = "constructor" -> Fun(1)
          [] name = "__proto__" -> Obj]

\* A property key is the string form of the value used as index.
ToPropertyKey(v) == IF v.type = "undefined" THEN "undefined" ELSE v.value

\* obj[key]: the own property, else the inherited one, else undefined.
Get(obj, key) ==
    IF key \in DOMAIN obj THEN Arr(obj[key])
    ELSE IF key \in DOMAIN ObjectPrototype THEN ObjectPrototype[key]
    ELSE Undefined

\* Every array, function and object is truthy; undefined is not.
Truthy(v) == v.type # "undefined"

\* v.length >= 1: an array's length, a function's parameter count; an object
\* without a length property gives undefined >= 1, which is false.
LengthAtLeastOne(v) ==
    CASE v.type = "array" -> Len(v.value) >= 1
      [] v.type = "function" -> v.length >= 1
      [] OTHER -> FALSE

(***************************************************************************)
(* The clock.                                                              *)
(***************************************************************************)
\* Date.now() (lines 51): milliseconds.
DateNow == clock * 1000

(***************************************************************************)
(* rateLimiterMiddleware, lines 49-78.                                     *)
(***************************************************************************)
\* Sweep with the comparison written now - timestamp < 5 minutes.
SweepStrict(tracker, now) ==
    LET kept == [name \in DOMAIN tracker |->
                    SelectSeq(tracker[name],
                              LAMBDA timestamp : now - timestamp < 5 * 60 * 1000)]
    IN  [name \in {n \in DOMAIN kept : Len(kept[n]) # 0} |-> kept[name]]

\* Sweep with lines 55 and 56 in the other order: the length is tested
\* before the filter, so a key whose hits all expire stays with an empty array.
SweepDeleteFirst(tracker, now) ==
    [name \in {n \in DOMAIN tracker : Len(tracker[n]) # 0} |->
        SelectSeq(tracker[name],
                  LAMBDA timestamp : now - timestamp <= 5 * 60 * 1000)]

\* Lines 54-57: every key keeps the timestamps at most 5 minutes old, and a
\* key left with none is deleted.
Sweep(tracker, now) ==
    LET kept == [name \in DOMAIN tracker |->
                    SelectSeq(tracker[name],
                              LAMBDA timestamp : now - timestamp <= 5 * 60 * 1000)]
    IN  [name \in {n \in DOMAIN kept : Len(kept[n]) # 0} |-> kept[name]]

\* Line 60: the keys holding two hits or more.
CustomerHits(tracker) == {name \in DOMAIN tracker : Len(tracker[name]) >= 2}

BurstMessage == "Maximum limit exceeded (2 hits per 5 minutes)"
CooldownMessage == "Maximum limit exceeded (1 hit per 2 minutes)"

\* CooldownHit with the comparison written length > 1.
CooldownHitOffByOne(tracker, customer_name) ==
    /\ Truthy(Get(tracker, ToPropertyKey(customer_name)))
    /\ Get(tracker, ToPropertyKey(customer_name)).type = "array"
    /\ Len(Get(tracker, ToPropertyKey(customer_name)).value) > 1

\* CooldownHit guarded by the name: a falsy customer_name is not checked.
CooldownHitSkipsFalsy(tracker, customer_name) ==
    /\ customer_name \notin {Undefined, Str("")}
    /\ Truthy(Get(tracker, ToPropertyKey(customer_name)))
    /\ LengthAtLeastOne(Get(tracker, ToPropertyKey(customer_name)))

\* Lines 66-68: the requester's entry is truthy and its length is >= 1.
CooldownHit(tracker, customer_name) ==
    /\ Truthy(Get(tracker, ToPropertyKey(customer_name)))
    /\ LengthAtLeastOne(Get(tracker, ToPropertyKey(customer_name)))

\* TrackHit without the push of line 74: the array is created and left empty.
TrackHitNoPush(tracker, customer_name, now) ==
    LET key == ToPropertyKey(customer_name)
        entry == Get(tracker, key)
    IN  IF ~Truthy(entry)
        THEN [threw |-> FALSE,
              tracker |-> [name \in DOMAIN tracker \cup {key} |->
                              IF name = key THEN <<>> ELSE tracker[name]]]
        ELSE [threw |-> entry.type # "array", tracker |-> tracker]

\* Lines 71-74: create the array when the entry is falsy, then push(now) on
\* whatever the entry is. Only an array has push: on an inherited function or
\* object the call throws TypeError and nothing is stored.
TrackHit(tracker, customer_name, now) ==
    LET key == ToPropertyKey(customer_name)
        entry == Get(tracker, key)
    IN  IF ~Truthy(entry)
        THEN [threw |-> FALSE,
              tracker |-> [name \in DOMAIN tracker \cup {key} |->
                              IF name = key THEN <<now>> ELSE tracker[name]]]
        ELSE IF entry.type = "array"
        THEN [threw |-> FALSE,
              tracker |-> [tracker EXCEPT ![key] = Append(@, now)]]
        ELSE [threw |-> TRUE, tracker |-> tracker]

\* Lines 231-237: an exception thrown by a middleware reaches the error
\* handler, which answers 500 unless the message is one of the two limits.
ErrorHandler(message) ==
    IF message \in {CooldownMessage, BurstMessage}
    THEN [status |-> 429, message |-> message]
    ELSE [status |-> 500, message |-> "Internal Server Error"]

\* rateLimiterMiddleware pushing the timestamp before the cooldown test, so a
\* denied request is recorded too.
rateLimiterRecordsDenied(tracker, customer_name, now) ==
    LET swept == Sweep(tracker, now)
        track == TrackHit(swept, customer_name, now)
    IN  IF Cardinality(CustomerHits(swept)) >= 2
        THEN [tracker |-> swept, outcome |-> "response",
              status |-> 429, message |-> BurstMessage]
        ELSE IF CooldownHit(swept, customer_name)
        THEN [tracker |-> track.tracker, outcome |-> "response",
              status |-> 429, message |-> CooldownMessage]
        ELSE IF track.threw
        THEN [tracker |-> track.tracker, outcome |-> "throw",
              status |-> ErrorHandler("TypeError").status,
              message |-> ErrorHandler("TypeError").message]
        ELSE [tracker |-> track.tracker, outcome |-> "next",
              status |-> 0, message |-> ""]

\* The whole middleware: the tracker it leaves and how it ends.
rateLimiterMiddleware(tracker, customer_name, now) ==
    LET swept == Sweep(tracker, now)
        track == TrackHit(swept, customer_name, now)
    IN  IF Cardinality(CustomerHits(swept)) >= 2
        THEN [tracker |-> swept, outcome |-> "response",
              status |-> 429, message |-> BurstMessage]
        ELSE IF CooldownHit(swept, customer_name)
        THEN [tracker |-> swept, outcome |-> "response",
              status |-> 429, message |-> CooldownMessage]
        ELSE IF track.threw
        THEN [tracker |-> track.tracker, outcome |-> "throw",
              status |-> ErrorHandler("TypeError").status,
              message |-> ErrorHandler("TypeError").message]
        ELSE [tracker |-> track.tracker, outcome |-> "next",
              status |-> 0, message |-> ""]

(***************************************************************************)
(* Tokens: jwt.sign and jwt.verify of the jsonwebtoken package, as lines   *)
(* 30-31, 40 and 141 use them. A token is its claims and its signature;    *)
(* the claims' times are in seconds.                                       *)
(***************************************************************************)
Secrets == {"secret-1", "secret-2"}
Users == {"user-1", "user-2"}

\* The clock as jsonwebtoken reads it: Math.floor(Date.now() / 1000).
ClockTimestamp == clock

\* expiresIn: '30m' and '1y' (a year of 365.25 days), in seconds.
AccessExpiresIn == 30 * 60
RefreshExpiresIn == 36525 * 24 * 36

NoToken == [type |-> "undefined"]

\* jwt.sign(payload, secret, { expiresIn }): the claims are the payload with
\* iat, the time of signing, and exp; the signature is the HMAC of the
\* claims under the secret, kept here as that pair.
jwtSign(payload, secret, expiresIn, now) ==
    LET claims == [userId |-> payload.userId, iat |-> now,
                   exp |-> now + expiresIn]
    IN  [type |-> "jwt", payload |-> claims,
         signature |-> [secret |-> secret, payload |-> claims]]

\* jwt.verify called with ignoreExpiration: exp is not looked at.
jwtVerifyIgnoresExpiry(token, secret, now) ==
    IF token.signature # [secret |-> secret, payload |-> token.payload]
    THEN [err |-> "invalid signature"]
    ELSE [err |-> "", decoded |-> token.payload]

\* jwt.verify expiring a token only after exp, not at exp.
jwtVerifyAfterExp(token, secret, now) ==
    IF token.signature # [secret |-> secret, payload |-> token.payload]
    THEN [err |-> "invalid signature"]
    ELSE IF now > token.payload.exp
    THEN [err |-> "jwt expired"]
    ELSE [err |-> "", decoded |-> token.payload]

\* jwt.verify(token, secret, callback): err when the signature is not the
\* HMAC of the token's claims under this secret, or when the clock has
\* reached exp; else the claims.
jwtVerify(token, secret, now) ==
    IF token.signature # [secret |-> secret, payload |-> token.payload]
    THEN [err |-> "invalid signature"]
    ELSE IF now >= token.payload.exp
    THEN [err |-> "jwt expired"]
    ELSE [err |-> "", decoded |-> token.payload]

\* Lines 29-33.
generateTokens(payload, now) ==
    [accessToken |-> jwtSign(payload, env.ACCESS_TOKEN_SECRET,
                             AccessExpiresIn, now),
     refreshToken |-> jwtSign(payload, env.REFRESH_TOKEN_SECRET,
                              RefreshExpiresIn, now)]

\* authenticate reading the claims without verifying them (jwt.decode).
authenticateDecodeOnly(token, now) ==
    IF token = NoToken
    THEN [outcome |-> "response", status |-> 401, message |-> "Unauthorized"]
    ELSE [outcome |-> "next", status |-> 0, message |-> ""]

\* authenticate verifying against the refresh secret.
authenticateRefreshSecret(token, now) ==
    IF token = NoToken
    THEN [outcome |-> "response", status |-> 401, message |-> "Unauthorized"]
    ELSE IF jwtVerify(token, env.REFRESH_TOKEN_SECRET, now).err # ""
    THEN [outcome |-> "response", status |-> 403, message |-> "Forbidden"]
    ELSE [outcome |-> "next", status |-> 0, message |-> ""]

\* Lines 36-45: 401 without a bearer value, 403 when it does not verify
\* against the access secret, else next().
authenticate(token, now) ==
    IF token = NoToken
    THEN [outcome |-> "response", status |-> 401, message |-> "Unauthorized"]
    ELSE IF jwtVerify(token, env.ACCESS_TOKEN_SECRET, now).err # ""
    THEN [outcome |-> "response", status |-> 403, message |-> "Forbidden"]
    ELSE [outcome |-> "next", status |-> 0, message |-> ""]

\* /auth/refresh refusing a refresh token that was rotated before.
authRefreshSingleUse(refreshToken, now) ==
    IF refreshToken = NoToken
    THEN [outcome |-> "response", status |-> 401, message |-> "Unauthorized",
          body |-> NoToken]
    ELSE IF \/ jwtVerify(refreshToken, env.REFRESH_TOKEN_SECRET, now).err # ""
            \/ rotated.token = refreshToken
    THEN [outcome |-> "response", status |-> 403, message |-> "Forbidden",
          body |-> NoToken]
    ELSE [outcome |-> "response", status |-> 200, message |-> "",
          body |-> generateTokens(
              [userId |-> refreshToken.payload.userId], now)]

\* /auth/refresh renewing the access token only: the refresh token presented
\* is handed back.
authRefreshAccessOnly(refreshToken, now) ==
    IF refreshToken = NoToken
    THEN [outcome |-> "response", status |-> 401, message |-> "Unauthorized",
          body |-> NoToken]
    ELSE IF jwtVerify(refreshToken, env.REFRESH_TOKEN_SECRET, now).err # ""
    THEN [outcome |-> "response", status |-> 403, message |-> "Forbidden",
          body |-> NoToken]
    ELSE [outcome |-> "response", status |-> 200, message |-> "",
          body |-> [generateTokens(
                        [userId |-> refreshToken.payload.userId], now)
                    EXCEPT !.refreshToken = refreshToken]]

\* Lines 137-147: 401 without a refresh token, 403 when it does not verify
\* against the refresh secret, else a new pair for the decoded userId.
authRefresh(refreshToken, now) ==
    IF refreshToken = NoToken
    THEN [outcome |-> "response", status |-> 401, message |-> "Unauthorized",
          body |-> NoToken]
    ELSE IF jwtVerify(refreshToken, env.REFRESH_TOKEN_SECRET, now).err # ""
    THEN [outcome |-> "response", status |-> 403, message |-> "Forbidden",
          body |-> NoToken]
    ELSE [outcome |-> "response", status |-> 200, message |-> "",
          body |-> generateTokens(
              [userId |-> jwtVerify(refreshToken, env.REFRESH_TOKEN_SECRET,
                                    now).decoded.userId], now)]

\* A token signed by somebody who holds neither secret.
ForgedToken(user, now) ==
    jwtSign([userId |-> user], "forged", AccessExpiresIn, now)

\* A token whose userId claim was rewritten after signing.
TamperedToken(token, user) == [token EXCEPT !.payload.userId = user]

(***************************************************************************)
(* The /db-save handler, lines 150-171.                                    *)
(***************************************************************************)
Date(y, m, d) == [year |-> y, month |-> m, date |-> d]

\* Lines 98-109.
calculateAge(todayDate, birthDate) ==
    LET age == todayDate.year - birthDate.year
        monthDiff == todayDate.month - birthDate.month
    IN  IF monthDiff < 0 \/ (monthDiff = 0 /\ todayDate.date < birthDate.date)
        THEN age - 1
        ELSE age

\* The day the handler runs and the dates of birth requests carry.
HandlerDay == Date(2024, 5, 15)
Dobs == {Date(2008, 5, 15), Date(2008, 5, 16), Date(2008, 6, 1), Date(1990, 0, 1)}

(***************************************************************************)
(* timeRestrictionMiddleware, lines 81-95.                                 *)
(***************************************************************************)
Days == 0..6      \* Date.getDay(): Sunday is 0, Monday is 1
Hours == 0..23    \* Date.getHours()

BlackoutDayMessage == "Please do not use this API on Monday"
BlackoutHoursMessage == "Restricted time: Please try after 3pm"

\* timeRestrictionMiddleware with the two checks in the other order.
timeRestrictionHoursFirst(now) ==
    IF now.hours >= 8 /\ now.hours < 12
    THEN [outcome |-> "response", status |-> 403,
          message |-> BlackoutHoursMessage]
    ELSE IF now.day = 1
    THEN [outcome |-> "response", status |-> 403,
          message |-> BlackoutDayMessage]
    ELSE [outcome |-> "next", status |-> 0, message |-> ""]

\* timeRestrictionMiddleware closing the range at 15, as its message says.
timeRestrictionUntilThree(now) ==
    IF now.day = 1
    THEN [outcome |-> "response", status |-> 403,
          message |-> BlackoutDayMessage]
    ELSE IF now.hours >= 8 /\ now.hours < 15
    THEN [outcome |-> "response", status |-> 403,
          message |-> BlackoutHoursMessage]
    ELSE [outcome |-> "next", status |-> 0, message |-> ""]

\* Lines 82-94: Monday first, then the hours from 8 up to 12.
timeRestrictionMiddleware(now) ==
    LET dayOfWeek == now.day
        hours == now.hours
    IN  IF dayOfWeek = 1
        THEN [outcome |-> "response", status |-> 403,
              message |-> BlackoutDayMessage]
        ELSE IF hours >= 8 /\ hours < 12
        THEN [outcome |-> "response", status |-> 403,
              message |-> BlackoutHoursMessage]
        ELSE [outcome |-> "next", status |-> 0, message |-> ""]

(***************************************************************************)
(* State.                                                                  *)
(***************************************************************************)
Idle == [pc |-> "idle"]
\* A request past authenticate: rateLimiterMiddleware reads its customer_name.
Limiting(customer_name) == [pc |-> "rateLimiter", customer_name |-> customer_name]
\* A request past the limiter: the handler reads name, dob and income only.
Handling == [pc |-> "handler"]
Awaiting == [pc |-> "await"]

\* The record of the step taken last: the input it read (customer_name or
\* token), how it ended, and the token pair it answered with, if any.
StepWith(op, customer_name, token, r, body) ==
    [op |-> op, customer_name |-> customer_name, token |-> token,
     outcome |-> r.outcome, status |-> r.status, message |-> r.message,
     body |-> body]

Step(op, customer_name, token, r) ==
    StepWith(op, customer_name, token, r, NoToken)

NoStep ==
    Step("none", Undefined, NoToken,
         [outcome |-> "none", status |-> 0, message |-> ""])

\* No refresh token has been rotated yet.
NoRotation == [token |-> NoToken, count |-> 0]

Envs ==
    {[ACCESS_TOKEN_SECRET |-> a, REFRESH_TOKEN_SECRET |-> r] :
        a \in Secrets, r \in Secrets}

\* Line 48 and the start of the process: nothing tracked, nothing in flight.
Init ==
    /\ clock = 0
    /\ hitTracker = <<>>
    /\ inflight = [i \in Slots |-> Idle]
    /\ last = NoStep
    /\ lastAdmit = [key \in {ToPropertyKey(n) : n \in CustomerNames} |-> -1]
    /\ env \in Envs
    /\ today = [day |-> 0, hours |-> 0]
    /\ rotated = NoRotation

(***************************************************************************)
(* POST /db-save, line 150: authenticate, rateLimiterMiddleware, handler.  *)
(***************************************************************************)
\* The bearer values a /db-save request presents.
Bearers ==
    {NoToken,
     generateTokens([userId |-> "user-1"], 0).accessToken,
     generateTokens([userId |-> "user-1"], 0).refreshToken,
     ForgedToken("user-1", 0)}

\* A request arrives in a free slot and authenticate runs on it.
Authenticate(i, names) ==
    /\ inflight[i].pc = "idle"
    /\ \E customer_name \in names, token \in Bearers :
        LET r == authenticate(token, ClockTimestamp)
        IN  /\ inflight' = [inflight EXCEPT ![i] =
                IF r.outcome = "next" THEN Limiting(customer_name) ELSE Idle]
            /\ last' = Step("authenticate", Undefined, token, r)
    /\ UNCHANGED <<clock, hitTracker, lastAdmit, env, today, rotated>>

\* rateLimiterMiddleware runs to its end on the request of slot i: lines
\* 49-78 hold no await, so nothing runs in between.
RateLimiter(i) ==
    /\ inflight[i].pc = "rateLimiter"
    /\ LET customer_name == inflight[i].customer_name
           r == rateLimiterMiddleware(hitTracker, customer_name, DateNow)
       IN  /\ hitTracker' = r.tracker
           /\ inflight' = [inflight EXCEPT ![i] =
                IF r.outcome = "next" THEN Handling ELSE Idle]
           /\ last' = Step("rateLimiter", customer_name, NoToken, r)
           /\ lastAdmit' =
                IF r.outcome = "next"
                THEN [lastAdmit EXCEPT ![ToPropertyKey(customer_name)] = DateNow]
                ELSE lastAdmit
    /\ UNCHANGED <<clock, env, today, rotated>>

\* The handler taking back, on a failed age check, the hits recorded at the
\* latest admission.
HandlerRollsBack(i) ==
    /\ inflight[i].pc = "handler"
    /\ \E dob \in Dobs :
        IF calculateAge(HandlerDay, dob) <= 15
        THEN /\ inflight' = [inflight EXCEPT ![i] = Idle]
             /\ last' = Step("handler", Undefined, NoToken,
                    [outcome |-> "response", status |-> 400,
                     message |-> "Age must be greater than 15."])
             /\ hitTracker' =
                    [name \in {n \in DOMAIN hitTracker :
                                \E k \in DOMAIN lastAdmit :
                                    lastAdmit[k] > lastAdmit[n]} |->
                        hitTracker[name]]
        ELSE /\ inflight' = [inflight EXCEPT ![i] = Awaiting]
             /\ last' = Step("handler", Undefined, NoToken,
                    [outcome |-> "await", status |-> 0, message |-> ""])
             /\ hitTracker' = hitTracker
    /\ UNCHANGED <<clock, lastAdmit, env, today, rotated>>

\* Lines 151-158: the age check, then the handler waits for Product.create.
Handler(i) ==
    /\ inflight[i].pc = "handler"
    /\ \E dob \in Dobs :
        IF calculateAge(HandlerDay, dob) <= 15
        THEN /\ inflight' = [inflight EXCEPT ![i] = Idle]
             /\ last' = Step("handler", Undefined, NoToken,
                    [outcome |-> "response", status |-> 400,
                     message |-> "Age must be greater than 15."])
        ELSE /\ inflight' = [inflight EXCEPT ![i] = Awaiting]
             /\ last' = Step("handler", Undefined, NoToken,
                    [outcome |-> "await", status |-> 0, message |-> ""])
    /\ UNCHANGED <<clock, hitTracker, lastAdmit, env, today, rotated>>

\* Lines 161-170: Product.create resolves (200) or rejects (500).
DbComplete(i) ==
    /\ inflight[i].pc = "await"
    /\ \E status \in {200, 500} :
        last' = Step("create", Undefined, NoToken,
                    [outcome |-> "response", status |-> status, message |-> ""])
    /\ inflight' = [inflight EXCEPT ![i] = Idle]
    /\ UNCHANGED <<clock, hitTracker, lastAdmit, env, today, rotated>>

\* Time passes.
Advance ==
    /\ clock < MaxTick * Tick
    /\ clock' = clock + Tick
    /\ last' = NoStep
    /\ UNCHANGED <<hitTracker, inflight, lastAdmit, env, today, rotated>>

\* One request at a time goes down the chain, with any customer_name.
Next ==
    \/ Advance
    \/ Authenticate(1, CustomerNames)
    \/ RateLimiter(1)
    \/ Handler(1)
    \/ DbComplete(1)

Spec == Init /\ [][Next]_vars

\* Up to MaxInFlight requests are in flight together and their steps
\* interleave in any order.
ConcurrentNames == {Str("A"), Undefined, Str("toString")}

NextConcurrent ==
    \/ Advance
    \/ \E i \in Slots : Authenticate(i, ConcurrentNames)
    \/ \E i \in Slots : RateLimiter(i)
    \/ \E i \in Slots : Handler(i)
    \/ \E i \in Slots : DbComplete(i)

SpecConcurrent == Init /\ [][NextConcurrent]_vars

(***************************************************************************)
(* POST /time-based-api, lines 173-188.                                    *)
(***************************************************************************)
InitTime ==
    /\ clock = 0
    /\ hitTracker = <<>>
    /\ inflight = [i \in Slots |-> Idle]
    /\ last = NoStep
    /\ lastAdmit = [key \in {ToPropertyKey(n) : n \in CustomerNames} |-> -1]
    /\ env \in Envs
    /\ today \in [day : Days, hours : Hours]
    /\ rotated = NoRotation

\* timeRestrictionMiddleware reads new Date(); when it calls next() the
\* handler waits for Product.create.
TimeBasedApi ==
    /\ inflight[1].pc = "idle"
    /\ LET r == timeRestrictionMiddleware(today)
       IN  /\ last' = Step("timeRestriction", Undefined, NoToken, r)
           /\ inflight' = [inflight EXCEPT ![1] =
                IF r.outcome = "next" THEN Awaiting ELSE Idle]
    /\ UNCHANGED <<clock, hitTracker, lastAdmit, env, today, rotated>>

\* An hour passes on the local clock; the day changes after hour 23.
HourPasses ==
    /\ today' = IF today.hours = 23
                THEN [day |-> (today.day + 1) % 7, hours |-> 0]
                ELSE [today EXCEPT !.hours = @ + 1]
    /\ last' = NoStep
    /\ UNCHANGED <<clock, hitTracker, inflight, lastAdmit, env, rotated>>

NextTime ==
    \/ HourPasses
    \/ TimeBasedApi
    \/ DbComplete(1)

SpecTime == InitTime /\ [][NextTime]_vars

(***************************************************************************)
(* The token routes: /auth/google/callback (lines 120-134), /auth/refresh  *)
(* (lines 137-147) and authenticate in front of /db-save.                  *)
(***************************************************************************)
\* The instants the credential checks are made at, in seconds.
AuthTimes ==
    {0, 10, AccessExpiresIn - 1, AccessExpiresIn, AccessExpiresIn + 1,
     RefreshExpiresIn - 1, RefreshExpiresIn, RefreshExpiresIn + 1}

\* The pairs generateTokens has issued to a user by now.
IssuedPairs(now) ==
    {generateTokens([userId |-> u], t) :
        u \in Users, t \in {x \in AuthTimes : x <= now}}

\* What a client can present by now: nothing, an issued access or refresh
\* token, an issued token with its userId rewritten, or a forged token.
Presentable(now) ==
    {NoToken}
    \cup {p.accessToken : p \in IssuedPairs(now)}
    \cup {p.refreshToken : p \in IssuedPairs(now)}
    \cup {TamperedToken(p.refreshToken, "user-2") :
            p \in {q \in IssuedPairs(now) : q.refreshToken.payload.userId = "user-1"}}
    \cup {ForgedToken("user-1", 0)}

\* Lines 120-134, after the id token was verified for payload.sub.
GoogleCallback ==
    /\ \E sub \in Users :
        last' = StepWith("callback", Undefined, NoToken,
                    [outcome |-> "response", status |-> 200, message |-> ""],
                    generateTokens([userId |-> sub], ClockTimestamp))
    /\ UNCHANGED <<clock, hitTracker, inflight, lastAdmit, env, today, rotated>>

\* POST /auth/refresh with any presentable refreshToken in the body. The
\* history follows the token that was rotated first and counts its rotations.
AuthRefresh ==
    /\ \E refreshToken \in Presentable(ClockTimestamp) :
        LET r == authRefresh(refreshToken, ClockTimestamp)
        IN  /\ last' = StepWith("refresh", Undefined, refreshToken, r, r.body)
            /\ rotated' =
                IF r.status # 200 THEN rotated
                ELSE IF rotated.token = NoToken
                THEN [token |-> refreshToken, count |-> 1]
                ELSE IF rotated.token = refreshToken
                        /\ rotated.count < MaxRotations
                THEN [rotated EXCEPT !.count = @ + 1]
                ELSE rotated
    /\ UNCHANGED <<clock, hitTracker, inflight, lastAdmit, env, today>>

\* A /db-save request with any presentable bearer reaches authenticate; the
\* rest of its chain is followed in Spec.
AuthenticateBearer ==
    /\ \E token \in Presentable(ClockTimestamp) :
        last' = Step("authenticate", Undefined, token,
                     authenticate(token, ClockTimestamp))
    /\ UNCHANGED <<clock, hitTracker, inflight, lastAdmit, env, today, rotated>>

\* Time passes to the next instant.
AuthAdvance ==
    /\ \E t \in AuthTimes :
        /\ t > clock
        /\ \A x \in AuthTimes : x > clock => t <= x
        /\ clock' = t
    /\ last' = NoStep
    /\ UNCHANGED <<hitTracker, inflight, lastAdmit, env, today, rotated>>

NextAuth ==
    \/ AuthAdvance
    \/ GoogleCallback
    \/ AuthRefresh
    \/ AuthenticateBearer

SpecAuth == Init /\ [][NextAuth]_vars

(***************************************************************************)
(* Properties of rateLimiterMiddleware.                                    *)
(***************************************************************************)
\* In this step rateLimiterMiddleware ran on the request of slot i.
LimiterRan(i) ==
    /\ inflight[i].pc = "rateLimiter"
    /\ inflight'[i].pc # "rateLimiter"

\* The key rateLimiterMiddleware tracks the request of slot i under.
KeyOf(i) == ToPropertyKey(inflight[i].customer_name)

\* No global burst is in effect for a request made now.
NoBurst == Cardinality(CustomerHits(Sweep(hitTracker, DateNow))) < 2

\* The limiter answered the request of slot i with the cooldown denial and
\* did not call next().
CooldownDenied(i) ==
    /\ inflight'[i] = Idle
    /\ last'.op = "rateLimiter"
    /\ last'.outcome = "response"
    /\ last'.status = 429
    /\ last'.message = CooldownMessage

\* C1: when the requester's only recorded hit is at t0, no global burst is in
\* effect and the check is made later than t0 + 120 s, the request is
\* admitted and a new hit is recorded for it.
C1_CooldownExpiry ==
    [][\A i \in Slots :
        (/\ LimiterRan(i)
         /\ NoBurst
         /\ KeyOf(i) \in DOMAIN hitTracker
         /\ Len(hitTracker[KeyOf(i)]) = 1
         /\ DateNow > hitTracker[KeyOf(i)][1] + 2 * 60 * 1000)
        => (/\ inflight'[i] = Handling
            /\ KeyOf(i) \in DOMAIN hitTracker'
            /\ \E n \in DOMAIN hitTracker'[KeyOf(i)] :
                    hitTracker'[KeyOf(i)][n] = DateNow)]_vars

\* C2: a check made at t with t0 <= t < t0 + 120 s, where t0 is the time the
\* requester was last admitted, and not denied for global burst, is denied
\* with 429 and the cooldown message, and next() is not called.
C2_CooldownDenial ==
    [][\A i \in Slots :
        (/\ LimiterRan(i)
         /\ NoBurst
         /\ lastAdmit[KeyOf(i)] >= 0
         /\ lastAdmit[KeyOf(i)] <= DateNow
         /\ DateNow < lastAdmit[KeyOf(i)] + 2 * 60 * 1000)
        => CooldownDenied(i)]_vars

\* A request was denied for cooldown 100 s after its admitted hit.
C2_Witness ==
    /\ last.op = "rateLimiter"
    /\ last.status = 429
    /\ last.message = CooldownMessage
    /\ lastAdmit[ToPropertyKey(last.customer_name)] >= 0
    /\ lastAdmit[ToPropertyKey(last.customer_name)] < DateNow
    /\ DateNow < lastAdmit[ToPropertyKey(last.customer_name)] + 2 * 60 * 1000

\* hitTracker maps keys to sequences of timestamps.
TrackerIsMap ==
    \A name \in DOMAIN hitTracker :
        \A n \in DOMAIN hitTracker[name] : hitTracker[name][n] \in Nat

\* C5: for every customer_name, rateLimiterMiddleware ends by calling next()
\* or by a 429 denial, never by throwing, and hitTracker stays a map from keys
\* to timestamp sequences.
C5_NeverRaises ==
    /\ TrackerIsMap
    /\ last.op = "rateLimiter" =>
        \/ last.outcome = "next"
        \/ last.outcome = "response" /\ last.status = 429

\* The names a request without a usable identity carries: absent and empty.
DegenerateNames == {Undefined, Str("")}

\* C6 as stated: absent and empty are tracked under one key, so a request
\* with either follows an admitted request with either, inside the cooldown
\* window, only to be denied.
C6_OneDegenerateKey ==
    [][\A i \in Slots :
        (/\ LimiterRan(i)
         /\ inflight[i].customer_name \in DegenerateNames
         /\ \E earlier \in DegenerateNames :
                /\ lastAdmit[ToPropertyKey(earlier)] >= 0
                /\ lastAdmit[ToPropertyKey(earlier)] <= DateNow
                /\ DateNow < lastAdmit[ToPropertyKey(earlier)] + 2 * 60 * 1000)
        => CooldownDenied(i)]_vars

\* C6 amended: an absent customer_name is swept, checked and recorded under
\* the key "undefined" and an empty one under the key ""; of two requests
\* that are both absent or both empty inside the cooldown window the second
\* is denied, and an admitted one is recorded under its key.
C6_DegenerateKeys ==
    [][\A i \in Slots :
        (/\ LimiterRan(i)
         /\ inflight[i].customer_name \in DegenerateNames)
        => /\ KeyOf(i) = (IF inflight[i].customer_name = Undefined
                          THEN "undefined" ELSE "")
           /\ \A name \in DOMAIN hitTracker' :
                \A n \in DOMAIN hitTracker'[name] :
                    DateNow - hitTracker'[name][n] <= 5 * 60 * 1000
           /\ (/\ lastAdmit[KeyOf(i)] >= 0
               /\ lastAdmit[KeyOf(i)] <= DateNow
               /\ DateNow < lastAdmit[KeyOf(i)] + 2 * 60 * 1000)
              => CooldownDenied(i)
           /\ inflight'[i] = Handling
              => /\ KeyOf(i) \in DOMAIN hitTracker'
                 /\ hitTracker'[KeyOf(i)] = <<DateNow>>]_vars

\* A second request without customer_name was denied 100 s after the first
\* was admitted, while the key "" was free.
C6_Witness ==
    /\ last.op = "rateLimiter"
    /\ last.customer_name = Undefined
    /\ last.status = 429
    /\ last.message = CooldownMessage
    /\ "undefined" \in DOMAIN hitTracker
    /\ hitTracker["undefined"] = <<DateNow - Tick * 1000>>
    /\ "" \notin DOMAIN hitTracker

\* C7: of the requests in flight with one identity that reach the limiter
\* inside the cooldown window at most one is admitted, and hitTracker changes
\* only in a step that runs rateLimiterMiddleware from start to end on one
\* request.
C7_AtMostOneAdmitted ==
    [][/\ \A i \in Slots :
            (LimiterRan(i) /\ inflight'[i] = Handling)
            => \/ lastAdmit[KeyOf(i)] < 0
               \/ DateNow - lastAdmit[KeyOf(i)] >= 2 * 60 * 1000
       /\ hitTracker' # hitTracker
            => \E i \in Slots :
                /\ LimiterRan(i)
                /\ hitTracker' =
                    rateLimiterMiddleware(hitTracker,
                        inflight[i].customer_name, DateNow).tracker
                /\ \A j \in Slots \ {i} : inflight'[j] = inflight[j]]_vars

\* Two requests of "A" were in flight together: one was admitted and is
\* still being handled, the other has just been denied at the same instant.
C7_Witness ==
    /\ last.op = "rateLimiter"
    /\ last.customer_name = Str("A")
    /\ last.status = 429
    /\ lastAdmit["A"] = DateNow
    /\ \A key \in DOMAIN lastAdmit : key # "A" => lastAdmit[key] < 0
    /\ \E j \in Slots : inflight[j].pc \in {"handler", "await"}

(***************************************************************************)
(* Properties of timeRestrictionMiddleware.                                *)
(***************************************************************************)
\* C8: on Monday (getDay() = 1) every request is denied with 403 and the
\* Monday message, at every hour, the hours 8 to 11 included.
C8_BlackoutDay ==
    (last.op = "timeRestriction" /\ today.day = 1)
    => /\ last.outcome = "response"
       /\ last.status = 403
       /\ last.message = BlackoutDayMessage
       /\ inflight[1] = Idle

\* A request on Monday at 9 was denied with the Monday message.
C8_Witness ==
    /\ last.op = "timeRestriction"
    /\ today = [day |-> 1, hours |-> 9]
    /\ last.status = 403
    /\ last.message = BlackoutDayMessage

IsAccessToken(token) ==
    \E p \in IssuedPairs(ClockTimestamp) : token = p.accessToken
IsRefreshToken(token) ==
    \E p \in IssuedPairs(ClockTimestamp) : token = p.refreshToken

Unexpired(token) == ClockTimestamp < token.payload.exp

\* C10: with two distinct secrets configured, /auth/refresh answers 403 to
\* every access token and authenticate answers 403 to every refresh token,
\* for every user and at every time; with one secret for both, an unexpired
\* token of the other kind is accepted.
C10_KindSeparation ==
    /\ (last.op = "refresh" /\ IsAccessToken(last.token))
        => IF env.ACCESS_TOKEN_SECRET # env.REFRESH_TOKEN_SECRET
           THEN last.status = 403 /\ last.body = NoToken
           ELSE Unexpired(last.token) => last.status = 200
    /\ (last.op = "authenticate" /\ IsRefreshToken(last.token))
        => IF env.ACCESS_TOKEN_SECRET # env.REFRESH_TOKEN_SECRET
           THEN last.status = 403 /\ last.outcome = "response"
           ELSE Unexpired(last.token) => last.outcome = "next"

\* An unexpired refresh token was refused by authenticate under two distinct
\* secrets.
C10_Witness ==
    /\ last.op = "authenticate"
    /\ IsRefreshToken(last.token)
    /\ Unexpired(last.token)
    /\ env.ACCESS_TOKEN_SECRET # env.REFRESH_TOKEN_SECRET
    /\ last.status = 403

\* C11: /auth/refresh answers every unexpired refresh token of user s with a
\* pair made at the time of rotation: a new access token and a new refresh
\* token, both for s, and the new refresh token expires later than now.
C11_RotationPreservesSubject ==
    /\ (last.op = "refresh" /\ IsRefreshToken(last.token)
            /\ Unexpired(last.token))
        => last.status = 200
    /\ (last.op = "refresh" /\ last.status = 200)
        => /\ last.body.accessToken.payload.userId = last.token.payload.userId
           /\ last.body.refreshToken.payload.userId = last.token.payload.userId
           /\ last.body.accessToken.payload.iat = ClockTimestamp
           /\ last.body.refreshToken.payload.iat = ClockTimestamp
           /\ last.body.accessToken.signature =
                [secret |-> env.ACCESS_TOKEN_SECRET,
                 payload |-> last.body.accessToken.payload]
           /\ last.body.refreshToken.signature =
                [secret |-> env.REFRESH_TOKEN_SECRET,
                 payload |-> last.body.refreshToken.payload]
           /\ last.body.refreshToken.payload.exp > ClockTimestamp

\* The refresh token issued to user-2 at time 0 was rotated 10 s later.
C11_Witness ==
    /\ last.op = "refresh"
    /\ last.status = 200
    /\ IsRefreshToken(last.token)
    /\ last.token.payload = [userId |-> "user-2", iat |-> 0,
                             exp |-> RefreshExpiresIn]
    /\ ClockTimestamp = 10
    /\ last.body.refreshToken.payload.userId = "user-2"
    /\ last.body.refreshToken # last.token

\* The refresh token presented is past its exp, carries claims its signature
\* was not made over, or was signed with another secret than the refresh one.
ExpiredToken(token) == ClockTimestamp > token.payload.exp
TamperedClaims(token) == token.signature.payload # token.payload
OtherSecret(token) == token.signature.secret # env.REFRESH_TOKEN_SECRET

\* C12: /auth/refresh answers 401 when no refresh token is presented and 403
\* when the one presented is expired, tampered with or signed with another
\* secret, and in both cases the answer carries no token.
C12_RotationFailure ==
    last.op = "refresh"
    => /\ last.token = NoToken
            => last.status = 401 /\ last.body = NoToken
       /\ (/\ last.token # NoToken
           /\ \/ ExpiredToken(last.token)
              \/ TamperedClaims(last.token)
              \/ OtherSecret(last.token))
            => last.status = 403 /\ last.body = NoToken
       /\ last.status # 200 => last.body = NoToken

\* A refresh token was refused one second after its exp, its signature intact.
C12_Witness ==
    /\ last.op = "refresh"
    /\ IsRefreshToken(last.token)
    /\ ExpiredToken(last.token)
    /\ ~TamperedClaims(last.token)
    /\ ~OtherSecret(last.token)
    /\ last.status = 403
    /\ last.body = NoToken

(***************************************************************************)
(* Properties of the /db-save chain.                                       *)
(***************************************************************************)
\* The bearer is signed over its claims with the access secret and has not
\* reached its exp.
ValidBearer(token) ==
    /\ token # NoToken
    /\ token.signature = [secret |-> env.ACCESS_TOKEN_SECRET,
                          payload |-> token.payload]
    /\ ClockTimestamp < token.payload.exp

\* C13: on /db-save a request without bearer is answered 401 and one whose
\* bearer fails verification 403; neither reaches rateLimiterMiddleware or the
\* handler and hitTracker is unchanged; a request comes before the limiter
\* only by a successful verification, and the limiter and the handler run
\* only on requests that came that way.
C13_AuthenticationGates ==
    [][/\ (last'.op = "authenticate" /\ last'.token = NoToken)
            => /\ last'.outcome = "response" /\ last'.status = 401
               /\ inflight' = inflight
               /\ hitTracker' = hitTracker /\ lastAdmit' = lastAdmit
       /\ (last'.op = "authenticate" /\ last'.token # NoToken
                /\ ~ValidBearer(last'.token))
            => /\ last'.outcome = "response" /\ last'.status = 403
               /\ inflight' = inflight
               /\ hitTracker' = hitTracker /\ lastAdmit' = lastAdmit
       /\ \A i \in Slots :
            (inflight[i].pc # "rateLimiter" /\ inflight'[i].pc = "rateLimiter")
            => /\ last'.op = "authenticate" /\ last'.outcome = "next"
               /\ ValidBearer(last'.token)
               /\ hitTracker' = hitTracker
       /\ \A i \in Slots :
            (inflight[i].pc # "handler" /\ inflight'[i].pc = "handler")
            => LimiterRan(i)
       /\ hitTracker' # hitTracker => \E i \in Slots : LimiterRan(i)]_vars

\* A forged bearer was answered 403 while hitTracker held a hit, and no
\* request went on.
C13_Witness ==
    /\ last.op = "authenticate"
    /\ last.token = ForgedToken("user-1", 0)
    /\ last.status = 403
    /\ hitTracker # <<>>
    /\ \A i \in Slots : inflight[i] = Idle

\* C14 as stated: a token issued at t0 verifies for its user at every t
\* with t0 <= t <= t0 + ttl and fails at every t > t0 + ttl, ttl being 30
\* minutes for an access token and one year for a refresh token.
C14_LifetimeInclusive ==
    /\ (last.op = "authenticate" /\ IsAccessToken(last.token))
        => /\ last.token.payload.exp = last.token.payload.iat + 30 * 60
           /\ IF ClockTimestamp <= last.token.payload.iat + 30 * 60
              THEN last.outcome = "next"
              ELSE last.status = 403
    /\ (last.op = "refresh" /\ IsRefreshToken(last.token))
        => /\ last.token.payload.exp =
                last.token.payload.iat + 36525 * 24 * 36
           /\ IF ClockTimestamp <= last.token.payload.iat + 36525 * 24 * 36
              THEN /\ last.status = 200
                   /\ last.body.accessToken.payload.userId =
                        last.token.payload.userId
              ELSE last.status = 403

\* C14 amended: on the clock of whole seconds the token verifies for its
\* user at every t with t0 <= t < t0 + ttl and fails at every t >= t0 + ttl.
C14_LifetimeExclusive ==
    /\ (last.op = "authenticate" /\ IsAccessToken(last.token))
        => /\ last.token.payload.exp = last.token.payload.iat + 30 * 60
           /\ IF ClockTimestamp < last.token.payload.iat + 30 * 60
              THEN last.outcome = "next"
              ELSE last.status = 403
    /\ (last.op = "refresh" /\ IsRefreshToken(last.token))
        => /\ last.token.payload.exp =
                last.token.payload.iat + 36525 * 24 * 36
           /\ IF ClockTimestamp < last.token.payload.iat + 36525 * 24 * 36
              THEN /\ last.status = 200
                   /\ last.body.accessToken.payload.userId =
                        last.token.payload.userId
              ELSE last.status = 403

\* The access token issued at 0 was refused when the clock read exactly
\* 30 minutes.
C14_Witness ==
    /\ last.op = "authenticate"
    /\ IsAccessToken(last.token)
    /\ last.token.payload.iat = 0
    /\ ClockTimestamp = 30 * 60
    /\ last.status = 403

(***************************************************************************)
(* Properties of the sweep and of what the limiter stores.                 *)
(***************************************************************************)
\* The timestamps stored under name, none when the key is not there.
HitsOf(tracker, name) ==
    IF name \in DOMAIN tracker THEN tracker[name] ELSE <<>>

\* What the limiter's run on slot i left under name, the hit it recorded for
\* that request, if it admitted it, taken off the end.
AfterSweep(i, name) ==
    IF inflight'[i] = Handling /\ name = KeyOf(i)
    THEN SubSeq(HitsOf(hitTracker', name), 1,
                Len(HitsOf(hitTracker', name)) - 1)
    ELSE HitsOf(hitTracker', name)

\* C15: the sweep that opens a run of rateLimiterMiddleware at time now
\* leaves under each key exactly the timestamps t it held with
\* now - t <= 5 minutes, in their order, and leaves no key with an empty
\* sequence.
C15_SweepPostcondition ==
    [][\A i \in Slots :
        LimiterRan(i)
        => /\ \A name \in DOMAIN hitTracker \cup DOMAIN hitTracker' :
                AfterSweep(i, name)
                    = SelectSeq(HitsOf(hitTracker, name),
                        LAMBDA t : DateNow - t <= 5 * 60 * 1000)
           /\ \A name \in DOMAIN hitTracker' :
                Len(hitTracker'[name]) > 0]_vars

\* A run of the limiter kept a hit exactly 5 minutes old and dropped the key
\* of an older one.
C15_Witness ==
    /\ last.op = "rateLimiter"
    /\ \E name \in DOMAIN hitTracker :
            hitTracker[name] = <<DateNow - 5 * 60 * 1000>>
    /\ \E key \in DOMAIN lastAdmit :
            /\ lastAdmit[key] >= 0
            /\ DateNow - lastAdmit[key] > 5 * 60 * 1000
            /\ key \notin DOMAIN hitTracker

\* C16: when the limiter denies a request, for either reason, hitTracker is
\* afterwards the swept hitTracker of before: the denied request records no
\* timestamp and the requester's hits are the ones it had.
C16_DenialRecordsNothing ==
    [][\A i \in Slots :
        (LimiterRan(i) /\ last'.status = 429)
        => /\ hitTracker' = Sweep(hitTracker, DateNow)
           /\ HitsOf(hitTracker', KeyOf(i))
                = SelectSeq(HitsOf(hitTracker, KeyOf(i)),
                    LAMBDA t : DateNow - t <= 5 * 60 * 1000)
           /\ \A name \in DOMAIN hitTracker' :
                \A n \in DOMAIN hitTracker'[name] :
                    \E m \in DOMAIN HitsOf(hitTracker, name) :
                        hitTracker[name][m] = hitTracker'[name][n]
           /\ lastAdmit' = lastAdmit]_vars

\* A request was denied 200 s after its hit and the key still holds that hit
\* alone.
C16_Witness ==
    /\ last.op = "rateLimiter"
    /\ last.status = 429
    /\ ToPropertyKey(last.customer_name) \in DOMAIN hitTracker
    /\ hitTracker[ToPropertyKey(last.customer_name)]
            = <<DateNow - 2 * Tick * 1000>>

\* Date.now() at the instants of the grid.
SweepTimes == {t * 1000 : t \in Times}

\* C17: for every hitTracker the program reaches and every now, sweeping
\* twice with the same now leaves what sweeping once leaves.
C17_SweepIdempotent ==
    \A now \in SweepTimes :
        Sweep(Sweep(hitTracker, now), now) = Sweep(hitTracker, now)

\* A hitTracker of which a sweep drops one key and keeps another.
C17_Witness ==
    \E now \in SweepTimes :
        /\ Sweep(hitTracker, now) # hitTracker
        /\ Sweep(hitTracker, now) # <<>>

C20_RotationKeepsTokenValid ==
    /\ (last.op = "refresh" /\ IsRefreshToken(last.token)
            /\ Unexpired(last.token))
        => /\ last.status = 200
           /\ jwtVerify(last.body.accessToken, env.ACCESS_TOKEN_SECRET,
                        ClockTimestamp).err = ""
           /\ jwtVerify(last.body.refreshToken, env.REFRESH_TOKEN_SECRET,
                        ClockTimestamp).err = ""
    /\ \A p \in IssuedPairs(ClockTimestamp) :
        Unexpired(p.refreshToken)
        => authRefresh(p.refreshToken, ClockTimestamp).status = 200

\* The refresh token issued at 0 was rotated twice and answered 200 again,
\* the last time at a later instant than it was issued at.
C20_Witness ==
    /\ last.op = "refresh"
    /\ last.status = 200
    /\ rotated.token = last.token
    /\ rotated.count >= 2
    /\ IsRefreshToken(last.token)
    /\ last.token.payload.iat = 0
    /\ last.body.refreshToken.payload.iat > 0

\* The handler answered 400 or 500 in the step that leads to the primed
\* state.
HandlerFailed ==
    /\ last'.op \in {"handler", "create"}
    /\ last'.status \in {400, 500}

\* C19: the hit is recorded when the limiter admits the request, before the
\* handler runs on it, and a handler that fails with 400 or 500 leaves
\* hitTracker as it was: every key admitted within the last 5 minutes still
\* holds the timestamp of its admission, so its next request is denied.
C19_FailedRequestKeepsHit ==
    [][/\ \A i \in Slots :
            (LimiterRan(i) /\ inflight'[i] = Handling)
            => /\ KeyOf(i) \in DOMAIN hitTracker'
               /\ hitTracker'[KeyOf(i)][Len(hitTracker'[KeyOf(i)])] = DateNow
       /\ HandlerFailed
            => /\ hitTracker' = hitTracker
               /\ lastAdmit' = lastAdmit
               /\ \A key \in DOMAIN lastAdmit :
                    (lastAdmit[key] >= 0
                        /\ DateNow - lastAdmit[key] <= 5 * 60 * 1000)
                    => /\ key \in DOMAIN hitTracker'
                       /\ \E n \in DOMAIN hitTracker'[key] :
                            hitTracker'[key][n] = lastAdmit[key]
                       /\ CooldownHit(hitTracker', Str(key))]_vars

\* The handler answered 400 to a request admitted at this instant and the
\* hit of that admission is still recorded.
C19_Witness ==
    /\ last.op = "handler"
    /\ last.status = 400
    /\ \E key \in DOMAIN hitTracker :
        /\ lastAdmit[key] = DateNow
        /\ hitTracker[key] = <<DateNow>>

====
